---- MODULE Spec2Model ----
(***************************************************************************)
(* GEMS pump valve controller: the standalone sketch (src/src/main.cpp)    *)
(* and the ValveManager library (src/lib/ValveManager), each in its        *)
(* Scheduled (timer) and Commanded (SERIAL_CONTROL) build.                 *)
(***************************************************************************)
EXTENDS Integers, Sequences, FiniteSets, TLC

(***************************************************************************)
(* Configuration constants of the two builds.                              *)
(***************************************************************************)
VALVE_BOTTOM_POS == 1205
VALVE_TOP_POS == 1795
VALVE_HOME_POS == 1500
MIN_MOVE_INTERVAL == 2000
POWER_CHECK_INTERVAL == 10
LOW_VOLTAGE_THRESHOLD == 10000
LOG_INTERVAL == 10
SKETCH_VALVE_CHANGE_INTERVAL == 450
LIB_VALVE_CHANGE_INTERVAL == 30
SETUP_DELAY == 1000
INIT_DELAY == 4000
\* value of an EEPROM cell that has never been written
EEPROM_ERASED == 255

(***************************************************************************)
(* Bounds of the model.                                                    *)
(***************************************************************************)
\* events of the environment in a run: time advances, command bytes and
\* power cycles
MaxSteps == 3

(***************************************************************************)
(* unsigned long: a 32-bit counter, kept as two 16-bit limbs <<hi, lo>>.   *)
(***************************************************************************)
Limb == 65536
U32(n) == <<n \div Limb, n % Limb>>
Add32(a, b) ==
    LET lo == a[2] + b[2]
        hi == a[1] + b[1] + (lo \div Limb)
    IN  <<hi % Limb, lo % Limb>>
\* a - b in unsigned 32-bit arithmetic (wraps)
Sub32(a, b) ==
    LET borrow == IF a[2] < b[2] THEN 1 ELSE 0
        lo == a[2] + borrow * Limb - b[2]
        hi == a[1] - b[1] - borrow
    IN  <<(hi + Limb) % Limb, lo>>
\* a < c for a 32-bit value a and a constant c < 2^31
Lt32(a, c) == a[1] < 32768 /\ a[1] * Limb + a[2] < c

(***************************************************************************)
(* TimeLib: the fields of a time_t (seconds since 1970-01-01 00:00:00),    *)
(* for times within 1970.                                                  *)
(***************************************************************************)
second(t) == t % 60
minute(t) == (t \div 60) % 60
hour(t) == (t \div 3600) % 24
MonthDays == <<31, 28, 31, 30, 31, 30, 31, 31, 30, 31, 30, 31>>
RECURSIVE MonthOf(_, _)
MonthOf(d, m) ==
    IF m = 12 \/ d < MonthDays[m] THEN <<m, d + 1>> ELSE MonthOf(d - MonthDays[m], m + 1)
month(t) == MonthOf((t \div 86400) % 365, 1)[1]
day(t) == MonthOf((t \div 86400) % 365, 1)[2]
year(t) == 1970 + (t \div 86400) \div 365

(***************************************************************************)
(* Position scheduler.                                                     *)
(***************************************************************************)
\* the scheduler with the two positions exchanged
expectedValvePositionSwapped(currentTime, interval) ==
    LET totalSeconds == minute(currentTime) * 60 + second(currentTime)
        intervalNumber == totalSeconds \div interval
    IN  IF intervalNumber % 2 = 0 THEN VALVE_TOP_POS ELSE VALVE_BOTTOM_POS
expectedValvePosition(currentTime, interval) ==
    LET totalSeconds == minute(currentTime) * 60 + second(currentTime)
        intervalNumber == totalSeconds \div interval
    IN  IF intervalNumber % 2 = 0 THEN VALVE_BOTTOM_POS ELSE VALVE_TOP_POS
\* the schedulers with an interval of 400 s, which does not divide the hour
calculateExpectedValvePosition400(currentTime) ==
    expectedValvePosition(currentTime, 400)
_calculateExpectedValvePosition400(currentTime) ==
    expectedValvePosition(currentTime, 400)
calculateExpectedValvePosition(currentTime) ==
    expectedValvePosition(currentTime, SKETCH_VALVE_CHANGE_INTERVAL)
_calculateExpectedValvePosition(currentTime) ==
    expectedValvePosition(currentTime, LIB_VALVE_CHANGE_INTERVAL)

(***************************************************************************)
(* State.                                                                  *)
(***************************************************************************)
VARIABLES
    unit,            \* "sketch" (main.cpp) or "library" (ValveManager)
    SERIAL_CONTROL,  \* build-time mode: TRUE = Commanded, FALSE = Scheduled
    pc,              \* "boot" (setup() / begin() not yet run), "run", or "halt"
                     \* (sketch: while(1) in initializeSystem)
    millisNow,       \* millis(): 32-bit monotonic counter
    wall,            \* now(): wall-clock seconds
    timeSet,         \* timeStatus() == timeSet
    voltage,         \* powerSensor.readBusVoltage(), mV
    serialIn,        \* bytes pending on the command channel
    sd,              \* storage medium: "ok", "absent" (SD.begin fails), "nofile" (SD.open fails)
    attached,        \* valve.attach() has been called
    valve,           \* valve.readMicroseconds(): the last set-point written
    eeprom,          \* EEPROM cell 0
    leds,            \* <<red, green>>, each the <<on, off>> pattern of a Flasher
    initialized,     \* ValveManager::_initialized
    lastMoveTime,    \* setValvePosition's lastMoveTime / _lastMoveMillis
    lastCheck,       \* checkPowerAndHome's lastCheck
    lastLogTime,     \* logPowerData's lastLogTime / _lastLogTime
    lastDay,         \* updateLogFilename's lastDay
    currentLogFile,  \* <<>> (empty name) or <<year, month, day>>
    files,           \* storage: file name -> sequence of lines
    steps,           \* number of events of the environment so far
    lastWriteAt,     \* history: <<>>, or <<millis, first trip?>> of the last actuator
                     \* write since boot
    tripped,         \* history: an interlock Home write has happened since boot
    attempted        \* history: a move attempt has reached the rate limiter since boot

vars ==
    <<unit, SERIAL_CONTROL, pc, millisNow, wall, timeSet, voltage, serialIn, sd, attached,
      valve, eeprom, leds, initialized, lastMoveTime, lastCheck, lastLogTime, lastDay,
      currentLogFile, files, steps, lastWriteAt, tripped, attempted>>

Units == {"sketch", "library"}
Voltages == {9500, LOW_VOLTAGE_THRESHOLD}
Bytes == {"t", "b", "x"}
Positions == {VALVE_BOTTOM_POS, VALVE_TOP_POS, VALVE_HOME_POS}
\* time advances between ticks: 10 ms, 2 s and 2^32 - 3000 ms
DtSet == {U32(POWER_CHECK_INTERVAL), U32(MIN_MOVE_INTERVAL), <<Limb - 1, Limb - 3000>>}
WallTimes == {15, 470, 900}
LedInit == <<<<0, 1000>>, <<0, 1000>>>>
NoEvent ==
    [op |-> "none", result |-> TRUE, writes |-> <<>>, attempts |-> <<>>,
     nvm |-> <<>>, led |-> <<>>, logs |-> <<>>, loaded |-> 0, read |-> <<>>]

(***************************************************************************)
(* The state as one record, so that a handler is the composition of the    *)
(* functions it calls. The record's ev field collects what the handler     *)
(* does (actuator writes, move attempts, store writes, indicator updates,  *)
(* telemetry records, bytes read); it is not part of the state.            *)
(***************************************************************************)
Enter(op) ==
    [millisNow |-> millisNow, wall |-> wall, timeSet |-> timeSet, voltage |-> voltage,
     serialIn |-> serialIn, sd |-> sd, attached |-> attached, valve |-> valve,
     eeprom |-> eeprom, leds |-> leds, initialized |-> initialized, pc |-> pc,
     lastMoveTime |-> lastMoveTime, lastCheck |-> lastCheck, lastLogTime |-> lastLogTime,
     lastDay |-> lastDay, currentLogFile |-> currentLogFile, files |-> files,
     lastWriteAt |-> lastWriteAt, tripped |-> tripped, attempted |-> attempted,
     steps |-> steps, ev |-> [NoEvent EXCEPT !.op = op]]

Commit(s) ==
    /\ millisNow' = s.millisNow
    /\ wall' = s.wall
    /\ timeSet' = s.timeSet
    /\ voltage' = s.voltage
    /\ serialIn' = s.serialIn
    /\ sd' = s.sd
    /\ attached' = s.attached
    /\ valve' = s.valve
    /\ eeprom' = s.eeprom
    /\ leds' = s.leds
    /\ initialized' = s.initialized
    /\ pc' = s.pc
    /\ lastMoveTime' = s.lastMoveTime
    /\ lastCheck' = s.lastCheck
    /\ lastLogTime' = s.lastLogTime
    /\ lastDay' = s.lastDay
    /\ currentLogFile' = s.currentLogFile
    /\ files' = s.files
    /\ lastWriteAt' = s.lastWriteAt
    /\ tripped' = s.tripped
    /\ attempted' = s.attempted
    /\ steps' = s.steps
    /\ UNCHANGED <<unit, SERIAL_CONTROL>>

(***************************************************************************)
(* Ports: actuator, persistent store, indicators.                          *)
(***************************************************************************)
\* valve.writeMicroseconds(position), called from `by` for the request `req`;
\* `trip` says that the caller substitutes Home because it read a low voltage
writeMicroseconds(s, position, by, req, trip) ==
    LET w == [pos |-> position, at |-> s.millisNow, by |-> by, req |-> req,
              bus |-> s.voltage, prev |-> s.lastWriteAt, trip |-> trip,
              firstTrip |-> trip /\ ~s.tripped]
    IN  [s EXCEPT !.valve = position,
                  !.lastWriteAt = <<s.millisNow, trip /\ ~s.tripped>>,
                  !.tripped = s.tripped \/ trip,
                  !.ev.writes = Append(s.ev.writes, w)]

\* EEPROM.update(0, value)
EEPROMupdate(s, value) ==
    [s EXCEPT !.eeprom = value, !.ev.nvm = Append(s.ev.nvm, value)]

\* updateLEDStatus without its branch for Home
LedPatternNoHome(valvePosition) ==
    IF valvePosition = VALVE_TOP_POS THEN <<<<100, 900>>, <<0, 1000>>>>
    ELSE <<<<0, 1000>>, <<100, 900>>>>
LedPattern(valvePosition) ==
    IF valvePosition = VALVE_HOME_POS THEN <<<<200, 800>>, <<200, 800>>>>
    ELSE IF valvePosition = VALVE_TOP_POS THEN <<<<100, 900>>, <<0, 1000>>>>
    ELSE <<<<0, 1000>>, <<100, 900>>>>

updateLEDStatus(s, valvePosition) ==
    [s EXCEPT !.leds = LedPattern(valvePosition),
              !.ev.led = Append(s.ev.led, valvePosition)]

\* the rate limiter's test: currentTime - lastMoveTime < MIN_MOVE_INTERVAL
\* the limiter written as currentTime < last + MIN_MOVE_INTERVAL
TooSoonNoWrap(currentTime, last) ==
    LET limit == Add32(last, U32(MIN_MOVE_INTERVAL))
    IN  currentTime[1] < limit[1] \/ (currentTime[1] = limit[1] /\ currentTime[2] < limit[2])
TooSoon(currentTime, last) == Lt32(Sub32(currentTime, last), MIN_MOVE_INTERVAL)

Attempt(s, position, ok) ==
    [s EXCEPT !.attempted = TRUE,
              !.ev.attempts = Append(s.ev.attempts,
                  [req |-> position, at |-> s.millisNow, last |-> s.lastMoveTime,
                   accepted |-> ok, first |-> ~s.attempted])]

(***************************************************************************)
(* Sketch: setValvePosition, checkPowerAndHome.                            *)
(***************************************************************************)
\* the sketch's setValvePosition taking the time of every attempt, rejected
\* ones included, as the time of the last move
setValvePositionRestamp(s, position) ==
    IF TooSoon(s.millisNow, s.lastMoveTime)
    THEN [Attempt(s, position, FALSE) EXCEPT !.lastMoveTime = s.millisNow]
    ELSE
      LET s1 == [Attempt(s, position, TRUE) EXCEPT !.lastMoveTime = s.millisNow]
      IN  IF s1.voltage < LOW_VOLTAGE_THRESHOLD
          THEN updateLEDStatus(
                 writeMicroseconds(s1, VALVE_HOME_POS, "setValvePosition", position, TRUE),
                 VALVE_HOME_POS)
          ELSE updateLEDStatus(
                 EEPROMupdate(
                   writeMicroseconds(s1, position, "setValvePosition", position, FALSE),
                   IF position = VALVE_TOP_POS THEN 1 ELSE 0),
                 position)
setValvePosition(s, position) ==
    IF TooSoon(s.millisNow, s.lastMoveTime) THEN Attempt(s, position, FALSE)
    ELSE
      LET s1 == [Attempt(s, position, TRUE) EXCEPT !.lastMoveTime = s.millisNow]
      IN  IF s1.voltage < LOW_VOLTAGE_THRESHOLD
          THEN updateLEDStatus(
                 writeMicroseconds(s1, VALVE_HOME_POS, "setValvePosition", position, TRUE),
                 VALVE_HOME_POS)
          ELSE updateLEDStatus(
                 EEPROMupdate(
                   writeMicroseconds(s1, position, "setValvePosition", position, FALSE),
                   IF position = VALVE_TOP_POS THEN 1 ELSE 0),
                 position)

checkPowerAndHome(s) ==
    IF Lt32(Sub32(s.millisNow, s.lastCheck), POWER_CHECK_INTERVAL) THEN s
    ELSE
      LET s1 == [s EXCEPT !.lastCheck = s.millisNow]
      IN  IF s1.voltage < LOW_VOLTAGE_THRESHOLD /\ s1.valve # VALVE_HOME_POS
          THEN updateLEDStatus(
                 writeMicroseconds(s1, VALVE_HOME_POS, "checkPowerAndHome", VALVE_HOME_POS,
                                   TRUE),
                 VALVE_HOME_POS)
          ELSE s1

(***************************************************************************)
(* Library: ValveManager::setValvePosition.                                *)
(***************************************************************************)
\* setValvePosition taking the time of every attempt, rejected ones included,
\* as the time of the last move
ValveManager_setValvePositionRestamp(s, position) ==
    IF ~s.initialized THEN s
    ELSE IF TooSoon(s.millisNow, s.lastMoveTime)
    THEN [Attempt(s, position, FALSE) EXCEPT !.lastMoveTime = s.millisNow]
    ELSE
      LET s1 == [Attempt(s, position, TRUE) EXCEPT !.lastMoveTime = s.millisNow]
      IN  updateLEDStatus(
            EEPROMupdate(
              writeMicroseconds(s1, position, "setValvePosition", position, FALSE),
              IF position = VALVE_TOP_POS THEN 1 ELSE 0),
            position)
ValveManager_setValvePosition(s, position) ==
    IF ~s.initialized THEN s
    ELSE IF TooSoon(s.millisNow, s.lastMoveTime) THEN Attempt(s, position, FALSE)
    ELSE
      LET s1 == [Attempt(s, position, TRUE) EXCEPT !.lastMoveTime = s.millisNow]
      IN  updateLEDStatus(
            EEPROMupdate(
              writeMicroseconds(s1, position, "setValvePosition", position, FALSE),
              IF position = VALVE_TOP_POS THEN 1 ELSE 0),
            position)

(***************************************************************************)
(* Storage medium and telemetry.                                           *)
(***************************************************************************)
SDexists(s, name) == s.sd # "absent" /\ name \in DOMAIN s.files
\* SD.open(name, FILE_WRITE) returns a file
SDopens(s) == s.sd = "ok"
\* a file is the sequence of its lines; a run of consecutive telemetry records
\* is kept as one "rec"
FilePrint(s, name, line) ==
    [s EXCEPT !.files = IF name \notin DOMAIN s.files THEN s.files @@ (name :> <<line>>)
                        ELSE IF line = "rec" /\ s.files[name][Len(s.files[name])] = "rec"
                        THEN s.files
                        ELSE [s.files EXCEPT ![name] = Append(@, line)]]

LogName(t) == <<year(t), month(t), day(t)>>

updateLogFilename(s) ==
    IF s.currentLogFile = <<>> \/ day(s.wall) # day(s.lastDay)
    THEN LET name == LogName(s.wall)
             s1 == [s EXCEPT !.currentLogFile = name]
             s2 == IF ~SDexists(s1, name) /\ SDopens(s1)
                   THEN FilePrint(s1, name, "hdr")
                   ELSE s1
         IN  [s2 EXCEPT !.lastDay = s.wall]
    ELSE s

\* the "Rebooted at" line of initializeSD / _initializeSD; opened says whether
\* the file could be opened
RebootLine(s) ==
    IF SDopens(s) THEN FilePrint(s, s.currentLogFile, "boot") ELSE s

\* one telemetry record, to the file (when it opens) and to the external serial
EmitRecord(s, currentTime, why) ==
    LET r == [t |-> currentTime, v |-> s.voltage, pos |-> s.valve,
              filed |-> SDopens(s), why |-> why]
        s1 == IF SDopens(s) THEN FilePrint(s, s.currentLogFile, "rec") ELSE s
    IN  [s1 EXCEPT !.ev.logs = Append(s.ev.logs, r)]

logPowerData(s) ==
    IF s.wall - s.lastLogTime < LOG_INTERVAL THEN s
    ELSE [EmitRecord(s, s.wall, "periodic") EXCEPT !.lastLogTime = s.wall]

_logPowerData(s, currentTime, why) == EmitRecord(s, currentTime, why)

(***************************************************************************)
(* Valve control.                                                          *)
(***************************************************************************)
\* the position the store holds: EEPROM.read(0) ? VALVE_TOP_POS : VALVE_BOTTOM_POS
StoredPosition(s) == IF s.eeprom # 0 THEN VALVE_TOP_POS ELSE VALVE_BOTTOM_POS

\* the command switch with every byte other than 'b' taken as Top
CommandTargetElseTop(command) ==
    IF command = "b" THEN VALVE_BOTTOM_POS ELSE VALVE_TOP_POS
CommandTarget(command) ==
    IF command = "t" THEN VALVE_TOP_POS
    ELSE IF command = "b" THEN VALVE_BOTTOM_POS
    ELSE 0

\* the poll leaving the byte it read on the channel
PollCommandPeek(s) ==
    IF s.serialIn # <<>>
    THEN [state |-> [s EXCEPT !.ev.read = Append(s.ev.read, Head(s.serialIn))],
          target |-> CommandTarget(Head(s.serialIn))]
    ELSE [state |-> s, target |-> 0]
\* the state after the command channel has been polled, and the target
PollCommand(s) ==
    IF s.serialIn # <<>>
    THEN [state |-> [s EXCEPT !.serialIn = Tail(s.serialIn),
                              !.ev.read = Append(s.ev.read, Head(s.serialIn))],
          target |-> CommandTarget(Head(s.serialIn))]
    ELSE [state |-> s, target |-> 0]

\* handleValveControl taking the stored position as its target when it read
\* no directive
handleValveControlRestore(s) ==
    LET currentPosition == s.valve
        polled == IF SERIAL_CONTROL THEN PollCommand(s)
                  ELSE [state |-> s, target |-> calculateExpectedValvePosition(s.wall)]
        targetPosition == IF polled.target # 0 THEN polled.target ELSE StoredPosition(s)
    IN  IF targetPosition # 0 /\ currentPosition # targetPosition
        THEN setValvePosition(polled.state, targetPosition)
        ELSE polled.state
handleValveControl(s) ==
    LET currentPosition == s.valve
        polled == IF SERIAL_CONTROL THEN PollCommand(s)
                  ELSE [state |-> s, target |-> calculateExpectedValvePosition(s.wall)]
        targetPosition == polled.target
    IN  IF targetPosition # 0 /\ currentPosition # targetPosition
        THEN setValvePosition(polled.state, targetPosition)
        ELSE polled.state

\* the valve control part of _handleValveControl: target and move
_valveControl(s) ==
    LET currentTime == s.wall
        currentPosition == s.valve
        polled == IF SERIAL_CONTROL THEN PollCommand(s)
                  ELSE [state |-> s, target |-> _calculateExpectedValvePosition(currentTime)]
        targetPosition == polled.target
    IN  IF targetPosition # 0 /\ currentPosition # targetPosition
        THEN ValveManager_setValvePosition(polled.state, targetPosition)
        ELSE polled.state

_handleValveControl(s) ==
    LET currentTime == s.wall
        s1 == _valveControl(s)
    IN  IF currentTime <= s1.lastLogTime THEN s1
        ELSE IF second(currentTime) % LOG_INTERVAL # 0 THEN s1
        ELSE [_logPowerData(s1, currentTime, "periodic") EXCEPT !.lastLogTime = s1.wall]

(***************************************************************************)
(* Sketch: setup and loop.                                                 *)
(***************************************************************************)
initializeSD(s) ==
    IF s.sd = "absent" THEN s
    ELSE RebootLine(updateLogFilename(s))

setup(s, rtcOk, sensorOk) ==
    LET s0 == [s EXCEPT !.millisNow = Add32(s.millisNow, U32(SETUP_DELAY)),
                        !.timeSet = rtcOk]
    IN  IF ~sensorOk THEN [s0 EXCEPT !.pc = "halt", !.ev.result = FALSE]
        ELSE
          LET s1 == [s0 EXCEPT !.millisNow = Add32(s0.millisNow, U32(INIT_DELAY)),
                               !.attached = TRUE]
              s2 == initializeSD(s1)
              s3 == IF SERIAL_CONTROL
                    THEN setValvePosition([s2 EXCEPT !.ev.loaded = StoredPosition(s2)],
                                          StoredPosition(s2))
                    ELSE s2
          IN  [s3 EXCEPT !.pc = "run"]

\* loop() with the telemetry step ahead of the valve control step
loopLogFirst(s) == updateLogFilename(handleValveControl(checkPowerAndHome(logPowerData(s))))
loop(s) == logPowerData(updateLogFilename(handleValveControl(checkPowerAndHome(s))))

(***************************************************************************)
(* Library: ValveManager's public methods.                                 *)
(***************************************************************************)
\* the state after _initializeSystem, and what it returned
_initializeSystem(s, rtcOk, sensorOk) ==
    LET s0 == [s EXCEPT !.timeSet = rtcOk]
    IN  IF ~rtcOk \/ ~sensorOk THEN [state |-> s0, ok |-> FALSE]
        ELSE [state |-> [s0 EXCEPT !.millisNow = Add32(s0.millisNow, U32(INIT_DELAY)),
                                   !.attached = TRUE],
              ok |-> TRUE]

_initializeSD(s) ==
    IF s.sd = "absent" THEN [state |-> s, ok |-> FALSE]
    ELSE [state |-> RebootLine(updateLogFilename(s)), ok |-> SDopens(s)]

begin(s, rtcOk, sensorOk) ==
    LET sys == _initializeSystem(s, rtcOk, sensorOk)
        card == _initializeSD(sys.state)
    IN  IF ~sys.ok THEN [sys.state EXCEPT !.ev.result = FALSE]
        ELSE IF ~card.ok THEN [card.state EXCEPT !.ev.result = FALSE]
        ELSE
          LET s2 == card.state
              s3 == IF SERIAL_CONTROL
                    THEN ValveManager_setValvePosition(
                           [s2 EXCEPT !.ev.loaded = StoredPosition(s2)], StoredPosition(s2))
                    ELSE s2
          IN  [s3 EXCEPT !.initialized = TRUE, !.ev.result = TRUE]

\* update() without its guard on _initialized
updateUnguarded(s) == updateLogFilename(_handleValveControl(s))
update(s) ==
    IF ~s.initialized THEN s
    ELSE updateLogFilename(_handleValveControl(s))

logData(s) ==
    IF ~s.initialized THEN s
    ELSE _logPowerData(s, s.wall, "forced")

isInitialized == initialized
getCurrentPosition == IF ~initialized THEN 0 ELSE valve
getVoltage == IF ~initialized THEN 0 ELSE voltage
\* reading is what the sensor's readCurrent() returns
getCurrent(reading) == IF ~initialized THEN 0 ELSE reading

(***************************************************************************)
(* Initial state: the first power-on of a device whose store was never     *)
(* written.                                                                *)
(***************************************************************************)
\* what readMicroseconds() returns before any write: the Servo default pulse
DEFAULT_PULSE_WIDTH == 1500
Cards == {"ok", "absent", "nofile"}

PowerOn ==
    /\ pc = "boot"
    /\ millisNow = U32(0)
    /\ timeSet = FALSE
    /\ serialIn = <<>>
    /\ attached = FALSE
    /\ valve = DEFAULT_PULSE_WIDTH
    /\ leds = LedInit
    /\ initialized = FALSE
    /\ lastMoveTime = U32(0)
    /\ lastCheck = U32(0)
    /\ lastLogTime = 0
    /\ lastDay = 0
    /\ currentLogFile = <<>>
    /\ lastWriteAt = <<>>
    /\ tripped = FALSE
    /\ attempted = FALSE

Init ==
    /\ unit \in Units
    /\ SERIAL_CONTROL \in BOOLEAN
    /\ wall = 15
    /\ voltage = LOW_VOLTAGE_THRESHOLD
    /\ sd \in Cards
    /\ eeprom = EEPROM_ERASED
    /\ files = <<>>
    /\ steps = 0
    /\ PowerOn

(***************************************************************************)
(* What a step finds when it runs: the time elapsed since the previous     *)
(* step, the wall clock and the bus voltage.                               *)
(***************************************************************************)
Inputs == [dt : DtSet \cup {U32(0)}, wall : WallTimes, voltage : Voltages]
\* time has passed since the previous step
Later(e) == e.dt # U32(0) \/ e.wall # wall
PossibleInputs == {e \in Inputs : e.wall >= wall /\ (Later(e) => steps < MaxSteps)}
Sense(op, e) ==
    [Enter(op) EXCEPT !.millisNow = Add32(millisNow, e.dt), !.wall = e.wall,
                      !.voltage = e.voltage,
                      !.steps = IF Later(e) THEN steps + 1 ELSE steps]

(***************************************************************************)
(* The runs of each handler that are possible in the current state: the    *)
(* state each run ends in, with what the run did in its ev field.          *)
(***************************************************************************)
SetupRuns ==
    IF unit = "sketch" /\ pc = "boot"
    THEN {setup([Enter("setup") EXCEPT !.voltage = v], rtcOk, sensorOk) :
            rtcOk \in BOOLEAN, sensorOk \in BOOLEAN, v \in Voltages}
    ELSE {}

LoopRuns ==
    IF unit = "sketch" /\ pc = "run"
    THEN {loop(Sense("loop", e)) : e \in PossibleInputs}
    ELSE {}

\* the host sketch calls begin() once, from its setup()
BeginRuns ==
    IF unit = "library" /\ pc = "boot"
    THEN {[begin(Sense("begin", e), rtcOk, sensorOk) EXCEPT !.pc = "run"] :
            rtcOk \in BOOLEAN, sensorOk \in BOOLEAN, e \in PossibleInputs}
    ELSE {}

UpdateRuns ==
    IF unit = "library"
    THEN {update(Sense("update", e)) : e \in PossibleInputs}
    ELSE {}

SetRuns(position) ==
    IF unit = "library"
    THEN {ValveManager_setValvePosition(Sense("setValvePosition", e), position) :
            e \in PossibleInputs}
    ELSE {}

LogRuns ==
    IF unit = "library" THEN {logData(Enter("logData"))} ELSE {}

Runs ==
    SetupRuns \cup LoopRuns \cup BeginRuns \cup UpdateRuns \cup LogRuns
      \cup UNION {SetRuns(position) : position \in Positions}

(***************************************************************************)
(* Steps of the program.                                                   *)
(***************************************************************************)
Setup == \E r \in SetupRuns : Commit(r)

Loop == \E r \in LoopRuns : Commit(r)

LibBegin == \E r \in BeginRuns : Commit(r)

LibUpdate == \E r \in UpdateRuns : Commit(r)

LibSetValvePosition == \E position \in Positions : \E r \in SetRuns(position) : Commit(r)

LibLogData == \E r \in LogRuns : Commit(r)

(***************************************************************************)
(* Steps of the environment.                                               *)
(***************************************************************************)
Quiet == Enter("none")

\* a byte arrives on the command channel
SerialArrive ==
    /\ pc = "run"
    /\ SERIAL_CONTROL
    /\ steps < MaxSteps
    /\ \E b \in Bytes :
         Commit([Quiet EXCEPT !.serialIn = Append(serialIn, b), !.steps = steps + 1])

\* power cycle: RAM is lost, the store, the card and the clock are kept
Reboot ==
    /\ pc # "boot" \/ millisNow # U32(0)
    /\ steps < MaxSteps
    /\ Commit([Quiet EXCEPT !.pc = "boot", !.steps = steps + 1,
                            !.millisNow = U32(0), !.timeSet = FALSE, !.serialIn = <<>>,
                            !.attached = FALSE, !.valve = DEFAULT_PULSE_WIDTH,
                            !.leds = LedInit, !.initialized = FALSE,
                            !.lastMoveTime = U32(0), !.lastCheck = U32(0),
                            !.lastLogTime = 0, !.lastDay = 0, !.currentLogFile = <<>>,
                            !.lastWriteAt = <<>>, !.tripped = FALSE, !.attempted = FALSE])

Next ==
    \/ Setup
    \/ Loop
    \/ LibBegin
    \/ LibUpdate
    \/ LibSetValvePosition
    \/ LibLogData
    \/ SerialArrive
    \/ Reboot

Spec == Init /\ [][Next]_vars

(***************************************************************************)
(* The scheduler alone: the clock runs through two hours, and each step    *)
(* sets the valve to the position the build's scheduler returns.           *)
(***************************************************************************)
\* the last wall-clock second of the scheduler's run
MaxSchedTime == 7260
SchedIntervals ==
    {1, 7, LIB_VALVE_CHANGE_INTERVAL, SKETCH_VALVE_CHANGE_INTERVAL, 1000, 3600, 4000}

SchedInit ==
    /\ unit \in Units
    /\ SERIAL_CONTROL = FALSE
    /\ wall = 0
    /\ voltage = LOW_VOLTAGE_THRESHOLD
    /\ sd = "ok"
    /\ eeprom = EEPROM_ERASED
    /\ files = <<>>
    /\ steps = 0
    /\ PowerOn

SchedTick ==
    /\ wall < MaxSchedTime
    /\ wall' = wall + 1
    /\ valve' = IF unit = "sketch" THEN calculateExpectedValvePosition(wall')
                ELSE _calculateExpectedValvePosition(wall')
    /\ UNCHANGED <<unit, SERIAL_CONTROL, pc, millisNow, timeSet, voltage, serialIn, sd,
                   attached, eeprom, leds, initialized, lastMoveTime, lastCheck,
                   lastLogTime, lastDay, currentLogFile, files, steps, lastWriteAt,
                   tripped, attempted>>

SchedSpec == SchedInit /\ [][SchedTick]_vars

(***************************************************************************)
(* The command channel in both builds and both modes: bytes arrive on the  *)
(* line whether or not the build reads it.                                 *)
(***************************************************************************)
CmdInit == Init /\ sd = "ok"

CmdArrive ==
    /\ pc = "run"
    /\ steps < MaxSteps
    /\ \E b \in Bytes :
         Commit([Quiet EXCEPT !.serialIn = Append(serialIn, b), !.steps = steps + 1])

CmdNext ==
    \/ Setup
    \/ Loop
    \/ LibBegin
    \/ LibUpdate
    \/ CmdArrive

CmdSpec == CmdInit /\ [][CmdNext]_vars

(***************************************************************************)
(* The sketch in Scheduled mode with loop() called for ever: the runtime   *)
(* calls loop() again as soon as it returns, and millis() advances.  The   *)
(* run is followed until millis() reaches MaxMillis.                       *)
(***************************************************************************)
\* the last millisecond of the run
MaxMillis == 12000
\* the time between two passes of the loop, when it is not negligible
TICK_MS == 500
RecoverInputs == [dt : {U32(0), U32(TICK_MS)}, wall : WallTimes, voltage : Voltages]

RecoverInit == Init /\ unit = "sketch" /\ ~SERIAL_CONTROL /\ sd = "ok"

\* the runs of loop() possible in the current state
RecoverRuns ==
    IF pc = "run" /\ millisNow[1] = 0 /\ millisNow[2] + TICK_MS <= MaxMillis
    THEN {loop([Enter("loop") EXCEPT !.millisNow = Add32(millisNow, e.dt),
                                     !.wall = e.wall, !.voltage = e.voltage]) :
            e \in {i \in RecoverInputs : i.wall >= wall}}
    ELSE {}

RecoverTick == \E r \in RecoverRuns : Commit(r)

RecoverNext ==
    \/ Setup
    \/ RecoverTick

\* a pass of the loop that changes the state is possible: ENABLED <<RecoverTick>>_vars
CanTick ==
    \E r \in RecoverRuns : [r EXCEPT !.ev = NoEvent] # [Quiet EXCEPT !.ev = NoEvent]

\* setup() runs after power-on, and loop() is called again whenever it returns:
\* weak fairness of Setup and of RecoverTick, the latter as
\* []<>~ENABLED <<RecoverTick>>_vars \/ []<><<RecoverTick>>_vars
RecoverSpec ==
    /\ RecoverInit /\ [][RecoverNext]_vars
    /\ WF_vars(Setup)
    /\ ([]<>(~CanTick) \/ []<><<RecoverTick>>_vars)

(***************************************************************************)
(* Log segments: ticks on 1 January, 2 January and 1 February, with the    *)
(* card failing and recovering (SD.open returns no file, then a file) and  *)
(* power cycles.                                                           *)
(***************************************************************************)
SegmentWallTimes == {15, 86400 + 20, 31 * 86400 + 30}

\* the runs of a tick possible in the current state
SegmentRuns ==
    IF pc = "run" /\ steps < MaxSteps
    THEN {LET s == [Enter("tick") EXCEPT
                      !.millisNow = Add32(millisNow, U32(MIN_MOVE_INTERVAL)),
                      !.wall = w, !.steps = steps + 1]
          IN  IF unit = "sketch" THEN loop(s) ELSE update(s) :
            w \in {t \in SegmentWallTimes : t >= wall}}
    ELSE {}

SegmentTick == \E r \in SegmentRuns : Commit(r)

\* SD.open starts, or stops, failing
CardChange ==
    /\ sd # "absent"
    /\ steps < MaxSteps
    /\ Commit([Quiet EXCEPT !.sd = IF sd = "ok" THEN "nofile" ELSE "ok",
                            !.steps = steps + 1])

SegmentNext ==
    \/ Setup
    \/ LibBegin
    \/ SegmentTick
    \/ CardChange
    \/ Reboot

SegmentSpec == Init /\ [][SegmentNext]_vars

(***************************************************************************)
(* Scheduled mode through two hours: the device boots without a fault, the *)
(* loop runs once or more in every second, and the bus voltage stays at    *)
(* the threshold.                                                          *)
(***************************************************************************)
\* milliseconds in a second of the wall clock
SECOND_MS == 1000

HourInit == Init /\ ~SERIAL_CONTROL /\ sd = "ok"

\* setup() / begin() with the clock and the sensor answering
HourBoot ==
    /\ pc = "boot"
    /\ Commit(IF unit = "sketch" THEN setup(Enter("setup"), TRUE, TRUE)
              ELSE [begin(Enter("begin"), TRUE, TRUE) EXCEPT !.pc = "run"])

\* the runs of a tick possible in the current state: in the same second as
\* the previous tick, or in the next one
HourRuns ==
    IF pc = "run"
    THEN {LET s == [Enter("tick") EXCEPT
                      !.millisNow = Add32(millisNow, U32(d * SECOND_MS)),
                      !.wall = wall + d,
                      !.voltage = LOW_VOLTAGE_THRESHOLD]
          IN  IF unit = "sketch" THEN loop(s) ELSE update(s) :
            d \in {i \in {0, 1} : wall + i <= MaxSchedTime}}
    ELSE {}

HourTick == \E r \in HourRuns : Commit(r)

HourNext ==
    \/ HourBoot
    \/ HourTick

HourSpec == HourInit /\ [][HourNext]_vars

(***************************************************************************)
(* Claims.                                                                 *)
(***************************************************************************)
Writes(r) == {r.ev.writes[i] : i \in DOMAIN r.ev.writes}
Attempts(r) == {r.ev.attempts[i] : i \in DOMAIN r.ev.attempts}
\* the runs of one pass of the control loop
TickRuns == LoopRuns \cup UpdateRuns
\* the runs of the initialization
StartRuns == SetupRuns \cup BeginRuns

\* C1: every write that setValvePosition issues past the rate limiter is
\* Home when the bus voltage is below the threshold, and the requested
\* position when it is at or above it.
C1_InterlockDecision ==
    \A r \in Runs : \A w \in Writes(r) :
        w.by = "setValvePosition" =>
            /\ w.bus < LOW_VOLTAGE_THRESHOLD => w.pos = VALVE_HOME_POS
            /\ w.bus >= LOW_VOLTAGE_THRESHOLD => w.pos = w.req

\* C2: no actuator write follows the previous actuator write by less than
\* the minimum move interval, unless one of the two is the first interlock
\* trip after boot.
C2_RateLimiter ==
    \A r \in Runs : \A w \in Writes(r) :
        (w.prev # <<>> /\ ~w.firstTrip /\ ~w.prev[2]) =>
            ~Lt32(Sub32(w.at, w.prev[1]), MIN_MOVE_INTERVAL)

\* C3: a run that writes only Home to the actuator leaves the stored
\* position as it was, and a run that writes Top or Bottom leaves the store
\* holding the last such position; no run changes the store otherwise.
LastSent(r) ==
    LET idx == {i \in DOMAIN r.ev.writes : r.ev.writes[i].pos # VALVE_HOME_POS}
    IN  IF idx = {} THEN 0
        ELSE r.ev.writes[CHOOSE i \in idx : \A j \in idx : j <= i].pos
C3_Persistence ==
    \A r \in Runs :
        IF LastSent(r) = 0 THEN StoredPosition(r) = StoredPosition([eeprom |-> eeprom])
        ELSE StoredPosition(r) = LastSent(r)

\* C4: a pass of the control loop (loop() of the sketch, update() of an
\* initialized ValveManager) that finds the valve at Top or Bottom, the bus
\* voltage below the threshold and the power check due, writes Home.
CheckDue(r) == ~Lt32(Sub32(r.millisNow, lastCheck), POWER_CHECK_INTERVAL)
C4_InterlockResponse ==
    \A r \in TickRuns :
        ( /\ unit = "library" => initialized
          /\ valve \in {VALVE_TOP_POS, VALVE_BOTTOM_POS}
          /\ r.voltage < LOW_VOLTAGE_THRESHOLD
          /\ CheckDue(r) )
        => /\ \E w \in Writes(r) : w.pos = VALVE_HOME_POS
           /\ r.valve = VALVE_HOME_POS

\* C5: the scheduled position is Bottom when floor(seconds into the hour /
\* interval) is even and Top when it is odd, for every interval > 0; with
\* interval 30 it is Bottom at 00:00:15, Top at 00:00:45, Bottom at 00:01:05.
SlotParity(t, interval) == ((t % 3600) \div interval) % 2
C5_Scheduler ==
    /\ \A interval \in SchedIntervals :
         expectedValvePosition(wall, interval) =
           IF SlotParity(wall, interval) = 0 THEN VALVE_BOTTOM_POS ELSE VALVE_TOP_POS
    /\ wall > 0 =>
         valve = IF SlotParity(wall, IF unit = "sketch" THEN SKETCH_VALVE_CHANGE_INTERVAL
                                     ELSE LIB_VALVE_CHANGE_INTERVAL) = 0
                 THEN VALVE_BOTTOM_POS ELSE VALVE_TOP_POS
    /\ (unit = "library" /\ wall = 15) => valve = VALVE_BOTTOM_POS
    /\ (unit = "library" /\ wall = 45) => valve = VALVE_TOP_POS
    /\ (unit = "library" /\ wall = 65) => valve = VALVE_BOTTOM_POS
\* the scheduler has run into the second hour, in an odd slot of the sketch
C5_Witness == unit = "sketch" /\ wall = 3600 + 470 /\ valve = VALVE_TOP_POS

\* C6: a run changes the time of the last move exactly when it writes to the
\* actuator, and then the time of the last move is the time of the write.
C6_LastMoveTime ==
    \A r \in Runs :
        /\ (r.lastMoveTime # lastMoveTime) <=> (Writes(r) # {})
        /\ \A w \in Writes(r) : r.lastMoveTime = w.at

\* C7: in Commanded mode an initialization that completes with the bus
\* voltage at or above the threshold writes the stored position to the
\* actuator.
C7_RestoreOnBoot ==
    \A r \in StartRuns :
        ( /\ SERIAL_CONTROL
          /\ r.ev.result
          /\ r.voltage >= LOW_VOLTAGE_THRESHOLD )
        => /\ \E w \in Writes(r) : w.pos = StoredPosition([eeprom |-> eeprom])
           /\ r.valve = StoredPosition([eeprom |-> eeprom])

\* C8: in Commanded mode the position an initialization loads from a store
\* that still holds the erased value is Bottom.
C8_ErasedStoreLoadsBottom ==
    \A r \in StartRuns :
        (SERIAL_CONTROL /\ eeprom = EEPROM_ERASED /\ r.ev.loaded # 0)
        => r.ev.loaded = VALVE_BOTTOM_POS

\* C9: the first move attempt after boot is accepted by the rate limiter,
\* whatever the millisecond counter reads.
C9_FirstMoveAccepted ==
    \A r \in Runs : \A a \in Attempts(r) : a.first => a.accepted

\* C10: while the ValveManager is not initialized, isInitialized() is false,
\* the getters return 0, and update(), setValvePosition() and logData() write
\* nothing to the actuator, the store, the card or the LEDs; a begin() that
\* returns false leaves it uninitialized, and only a begin() that returns true
\* initializes it.
Untouched(r) ==
    /\ r.valve = valve /\ r.ev.writes = <<>>
    /\ r.eeprom = eeprom /\ r.ev.nvm = <<>>
    /\ r.files = files /\ r.ev.logs = <<>>
    /\ r.currentLogFile = currentLogFile
    /\ r.leds = leds /\ r.ev.led = <<>>
    /\ r.lastMoveTime = lastMoveTime /\ r.lastLogTime = lastLogTime
    /\ ~r.initialized
ApiRuns ==
    UpdateRuns \cup LogRuns \cup UNION {SetRuns(position) : position \in Positions}
C10_Uninitialized ==
    (unit = "library") =>
        /\ ~initialized =>
             /\ isInitialized = FALSE
             /\ getCurrentPosition = 0
             /\ getVoltage = 0
             /\ \A reading \in {0, 250} : getCurrent(reading) = 0
             /\ \A r \in ApiRuns : Untouched(r)
        /\ \A r \in BeginRuns :
             /\ ~r.ev.result => ~r.initialized
             /\ r.ev.result => r.initialized
        /\ \A r \in Runs : (r.initialized /\ ~initialized) => r.ev.op = "begin"
\* begin() has failed on the card, and an update() is called at a second at
\* which the schedule asks for Top and a telemetry record is due
C10_Witness ==
    /\ unit = "library" /\ pc = "run" /\ ~initialized /\ attached /\ ~SERIAL_CONTROL
    /\ \E r \in UpdateRuns :
         /\ second(r.wall) % LOG_INTERVAL = 0
         /\ _calculateExpectedValvePosition(r.wall) = VALVE_TOP_POS
         /\ Untouched(r)

\* C11: an initialization during which the wall clock cannot be synchronised
\* writes nothing to the actuator and does not start the control loop, and
\* after it no run of the program reads a command, attempts a move or writes
\* to the actuator.
C11_ClockFatal ==
    /\ \A r \in StartRuns :
         ~r.timeSet =>
           /\ Writes(r) = {} /\ Attempts(r) = {}
           /\ unit = "sketch" => r.pc # "run"
           /\ unit = "library" => ~r.initialized
    /\ (pc = "run" /\ ~timeSet) =>
         \A r \in Runs : Writes(r) = {} /\ Attempts(r) = {} /\ r.ev.read = <<>>

\* C12: when the storage medium failed to initialise or the log file cannot
\* be opened, a pass of the control loop still makes the move that is due:
\* with a target other than the valve's position and the rate limiter open,
\* it writes to the actuator.
DueTarget(r) ==
    IF SERIAL_CONTROL
    THEN IF serialIn # <<>> THEN CommandTarget(Head(serialIn)) ELSE 0
    ELSE IF unit = "sketch" THEN calculateExpectedValvePosition(r.wall)
    ELSE _calculateExpectedValvePosition(r.wall)
C12_StorageNonFatal ==
    (pc = "run" /\ attached /\ timeSet /\ sd # "ok") =>
        \A r \in TickRuns :
            (DueTarget(r) \notin {0, valve} /\ ~TooSoon(r.millisNow, lastMoveTime))
            => Writes(r) # {}

\* the ticks that do something: every loop(), and update() once initialized
LiveTickRuns == IF unit = "library" /\ ~initialized THEN {} ELSE TickRuns
\* the byte a tick read, "" when it read none
ByteRead(r) == IF r.ev.read = <<>> THEN "" ELSE r.ev.read[1]

\* C13 as stated: in Commanded mode a tick reads at most one byte, 't' asks
\* for Top and 'b' for Bottom, and a tick that read another byte or none
\* writes nothing to the actuator or the store and changes neither the
\* indicators nor the last-move time; in Scheduled mode no tick reads the
\* channel.
C13_CommandProtocol ==
    \A r \in LiveTickRuns :
        IF SERIAL_CONTROL
        THEN /\ Len(r.ev.read) <= 1
             /\ r.ev.read = SubSeq(serialIn, 1, Len(r.ev.read))
             /\ r.serialIn = SubSeq(serialIn, Len(r.ev.read) + 1, Len(serialIn))
             /\ serialIn # <<>> => Len(r.ev.read) = 1
             /\ \A a \in Attempts(r) :
                  \/ ByteRead(r) = "t" /\ a.req = VALVE_TOP_POS
                  \/ ByteRead(r) = "b" /\ a.req = VALVE_BOTTOM_POS
             /\ (ByteRead(r) = "t" /\ valve # VALVE_TOP_POS) => Attempts(r) # {}
             /\ (ByteRead(r) = "b" /\ valve # VALVE_BOTTOM_POS) => Attempts(r) # {}
             /\ ByteRead(r) \notin {"t", "b"} =>
                  /\ Writes(r) = {}
                  /\ r.ev.nvm = <<>> /\ r.eeprom = eeprom
                  /\ r.leds = leds
                  /\ r.lastMoveTime = lastMoveTime
        ELSE r.ev.read = <<>> /\ r.serialIn = serialIn

\* C13 amended: as C13, except that a tick that read another byte or none
\* may still write Home to the actuator and set the Home pattern through the
\* power check (checkPowerAndHome); it makes no move attempt, writes nothing
\* else, and leaves the store and the last-move time alone.
C13_CommandProtocolAmended ==
    \A r \in LiveTickRuns :
        IF SERIAL_CONTROL
        THEN /\ Len(r.ev.read) <= 1
             /\ r.ev.read = SubSeq(serialIn, 1, Len(r.ev.read))
             /\ r.serialIn = SubSeq(serialIn, Len(r.ev.read) + 1, Len(serialIn))
             /\ serialIn # <<>> => Len(r.ev.read) = 1
             /\ \A a \in Attempts(r) :
                  \/ ByteRead(r) = "t" /\ a.req = VALVE_TOP_POS
                  \/ ByteRead(r) = "b" /\ a.req = VALVE_BOTTOM_POS
             /\ (ByteRead(r) = "t" /\ valve # VALVE_TOP_POS) => Attempts(r) # {}
             /\ (ByteRead(r) = "b" /\ valve # VALVE_BOTTOM_POS) => Attempts(r) # {}
             /\ ByteRead(r) \notin {"t", "b"} =>
                  /\ Attempts(r) = {}
                  /\ \A w \in Writes(r) :
                       w.by = "checkPowerAndHome" /\ w.pos = VALVE_HOME_POS
                  /\ r.ev.nvm = <<>> /\ r.eeprom = eeprom
                  /\ r.leds # leds => (Writes(r) # {} /\ r.leds = LedPattern(VALVE_HOME_POS))
                  /\ r.lastMoveTime = lastMoveTime
        ELSE r.ev.read = <<>> /\ r.serialIn = serialIn
\* Commanded mode: a byte that is no command is pending with the valve away
\* from Home, and a tick reads it
C13_Witness ==
    /\ pc = "run" /\ serialIn # <<>> /\ Head(serialIn) = "x"
    /\ valve # VALVE_HOME_POS
    /\ \E r \in LiveTickRuns : SERIAL_CONTROL /\ r.ev.read = <<"x">>

\* a tick that has no move to make: its target is the valve's position, or
\* the rate limiter rejects its attempt
NoMove(r) == DueTarget(r) = valve \/ \E a \in Attempts(r) : ~a.accepted
Unmoved(r) ==
    /\ Writes(r) = {} /\ r.valve = valve
    /\ r.ev.nvm = <<>> /\ r.eeprom = eeprom
    /\ r.lastMoveTime = lastMoveTime
    /\ r.leds = leds
\* the attempt of a move to position made ms milliseconds after the last move
AttemptAfter(ms, position) ==
    LET s == [Enter("setValvePosition") EXCEPT
                !.millisNow = Add32(lastMoveTime, U32(ms)),
                !.voltage = LOW_VOLTAGE_THRESHOLD]
    IN  IF unit = "sketch" THEN setValvePosition(s, position)
        ELSE ValveManager_setValvePosition(s, position)

\* C14 as stated: a tick whose target is the valve's position, or whose
\* attempt the rate limiter rejects, leaves the actuator position, the
\* store, the last-move time and the indicators as they were; an attempt
\* 1500 ms after a move is rejected and one 2100 ms after it is accepted.
C14_NoMoveTick ==
    /\ \A r \in LiveTickRuns : NoMove(r) => Unmoved(r)
    /\ (pc = "run" /\ (unit = "library" => initialized)) =>
         \A position \in {VALVE_TOP_POS, VALVE_BOTTOM_POS} :
           /\ \A a \in Attempts(AttemptAfter(1500, position)) : ~a.accepted
           /\ Unmoved(AttemptAfter(1500, position))
           /\ \A a \in Attempts(AttemptAfter(2100, position)) : a.accepted
           /\ AttemptAfter(2100, position).valve = position

\* C14 amended: the same, for ticks in which the power check does not trip;
\* in a tick in which it trips and the rate limiter rejects the attempt, the
\* only writes are the power check's Home, and the store and the last-move
\* time are as they were.
Trips(r) == \E w \in Writes(r) : w.by = "checkPowerAndHome"
C14_NoMoveTickAmended ==
    /\ \A r \in LiveTickRuns :
         /\ (NoMove(r) /\ ~Trips(r)) => Unmoved(r)
         /\ (Trips(r) /\ \E a \in Attempts(r) : ~a.accepted) =>
              /\ \A w \in Writes(r) : w.by = "checkPowerAndHome" /\ w.pos = VALVE_HOME_POS
              /\ r.ev.nvm = <<>> /\ r.eeprom = eeprom
              /\ r.lastMoveTime = lastMoveTime
              /\ r.leds = LedPattern(VALVE_HOME_POS)
    /\ (pc = "run" /\ (unit = "library" => initialized)) =>
         \A position \in {VALVE_TOP_POS, VALVE_BOTTOM_POS} :
           /\ \A a \in Attempts(AttemptAfter(1500, position)) : ~a.accepted
           /\ Unmoved(AttemptAfter(1500, position))
           /\ \A a \in Attempts(AttemptAfter(2100, position)) : a.accepted
           /\ AttemptAfter(2100, position).valve = position
\* a move has been made, and a tick attempts another that the rate limiter
\* rejects
C14_Witness ==
    /\ lastWriteAt # <<>>
    /\ \E r \in LiveTickRuns :
         /\ \E a \in Attempts(r) : ~a.accepted
         /\ ~Trips(r) /\ Unmoved(r)

\* the interlock has put the valve at Home, the voltage is back at or above
\* the threshold, and the run has a minimum move interval left
Dipped ==
    /\ pc = "run" /\ tripped /\ valve = VALVE_HOME_POS
    /\ voltage >= LOW_VOLTAGE_THRESHOLD
    /\ millisNow[1] = 0 /\ millisNow[2] + MIN_MOVE_INTERVAL <= MaxMillis
\* the valve is where the schedule puts it, and the store holds that position
Recovered ==
    /\ valve = calculateExpectedValvePosition(wall)
    /\ StoredPosition([eeprom |-> eeprom]) = valve

\* C15: in Scheduled mode, once the interlock has put the valve at Home and
\* the voltage is back, the loop moves the valve to the scheduled position
\* and stores it, unless the voltage falls below the threshold again; the
\* store never holds anything but the erased value, Top (1) or Bottom (0).
C15_Recovery ==
    /\ Dipped ~> (Recovered \/ voltage < LOW_VOLTAGE_THRESHOLD)
    /\ [](eeprom \in {EEPROM_ERASED, 0, 1})
\* the interlock has tripped, the voltage is back, and the rate limiter still
\* holds the valve at Home
C15_Witness ==
    /\ Dipped
    /\ TooSoon(millisNow, lastMoveTime)
    /\ eeprom \in {0, 1}

\* the periodic telemetry records a run emitted
Periodic(r) == {r.ev.logs[i] : i \in {j \in DOMAIN r.ev.logs : r.ev.logs[j].why = "periodic"}}

\* C16: a tick emits a periodic telemetry record only when the wall-clock
\* second is a multiple of the log interval, emits at most one, and emits
\* none for a second that already has one.
C16_TelemetryCadence ==
    \A r \in LiveTickRuns :
        /\ Cardinality(Periodic(r)) <= 1
        /\ Len(r.ev.logs) <= 1
        /\ \A l \in Periodic(r) :
             /\ l.t = r.wall
             /\ second(l.t) % LOG_INTERVAL = 0
             /\ l.t > lastLogTime

\* the inputs of the tick of the running program, its state after the valve
\* control step alone, and after the whole tick
TickCases ==
    IF pc # "run" \/ (unit = "library" /\ ~initialized) THEN {}
    ELSE {[e |-> e,
           c |-> IF unit = "sketch"
                 THEN handleValveControl(checkPowerAndHome(Sense("loop", e)))
                 ELSE _valveControl(Sense("update", e)),
           r |-> IF unit = "sketch" THEN loop(Sense("loop", e))
                 ELSE update(Sense("update", e))] : e \in PossibleInputs}
\* a periodic record is due at wall-clock time t
LogDue(t) ==
    IF unit = "sketch" THEN t - lastLogTime >= LOG_INTERVAL
    ELSE t > lastLogTime /\ second(t) % LOG_INTERVAL = 0

\* C17: a tick emits a periodic record exactly when one is due, whatever its
\* valve control step did (move, rejected attempt, nothing); the telemetry
\* leaves the actuator position, the store, the last-move time and the
\* tick's writes and attempts as the valve control step left them; and the
\* record carries the set-point after the valve control step.
C17_LoggingIndependent ==
    \A k \in TickCases :
        /\ LogDue(k.e.wall) <=> Periodic(k.r) # {}
        /\ k.r.valve = k.c.valve
        /\ k.r.eeprom = k.c.eeprom
        /\ k.r.lastMoveTime = k.c.lastMoveTime
        /\ k.r.ev.writes = k.c.ev.writes
        /\ k.r.ev.attempts = k.c.ev.attempts
        /\ k.r.ev.nvm = k.c.ev.nvm
        /\ \A l \in Periodic(k.r) : l.pos = k.c.valve /\ l.t = k.e.wall
\* a move has been made, and a tick on which a record is due has its move
\* rejected by the rate limiter; another such tick moves the valve
C17_Witness ==
    /\ lastWriteAt # <<>>
    /\ \E k \in TickCases :
         /\ Periodic(k.r) # {}
         /\ \E a \in Attempts(k.r) : ~a.accepted
    /\ \E k \in TickCases :
         /\ Periodic(k.r) # {}
         /\ \E w \in Writes(k.r) : w.pos # valve

\* C18: once the actuator has been written, the indicators show the pattern
\* of the valve's last commanded position; the patterns of Home, Top and
\* Bottom differ pairwise; a run sets the indicators once per actuator write,
\* to the pattern of the position written, and a run that writes nothing
\* leaves them alone.
C18_IndicatorConsistency ==
    /\ lastWriteAt # <<>> => leds = LedPattern(valve)
    /\ \A p, q \in Positions : p # q => LedPattern(p) # LedPattern(q)
    /\ \A r \in Runs :
         /\ Len(r.ev.led) = Len(r.ev.writes)
         /\ \A i \in DOMAIN r.ev.writes : r.ev.led[i] = r.ev.writes[i].pos
         /\ Writes(r) = {} => r.leds = leds
         /\ Writes(r) # {} => r.leds = LedPattern(r.valve)
\* the interlock has homed the valve after a move, and the indicators show
\* the Home pattern
C18_Witness ==
    /\ tripped /\ valve = VALVE_HOME_POS /\ eeprom \in {0, 1}
    /\ leds = <<<<200, 800>>, <<200, 800>>>>

\* (at - last) mod 2^32 < c, for c < 2^16, from the limbs of the two counters
ElapsedBelow(last, at, c) ==
    LET high == (at[1] - last[1] + Limb) % Limb
        low == at[2] - last[2]
    IN  \/ high = 0 /\ low >= 0 /\ low < c
        \/ high = 1 /\ low < 0 /\ low + Limb < c
\* the attempts of a call of the build's setValvePosition at input e with the
\* wall clock reading w
AttemptsAt(e, w, position) ==
    LET s == [Sense("setValvePosition", e) EXCEPT !.wall = w]
    IN  Attempts(IF unit = "sketch" THEN setValvePosition(s, position)
                 ELSE ValveManager_setValvePosition(s, position))

\* C19: an attempt is accepted exactly when (now - last move) mod 2^32 is at
\* least the minimum move interval, also when the counter has wrapped since
\* the last move; and the same attempt is decided the same way whatever the
\* wall clock reads, earlier or later.
C19_WrapSafeLimiter ==
    /\ \A r \in Runs : \A a \in Attempts(r) :
         a.accepted <=> ~ElapsedBelow(a.last, a.at, MIN_MOVE_INTERVAL)
    /\ (pc = "run" /\ (unit = "library" => initialized)) =>
         \A e \in PossibleInputs : \A w \in WallTimes \cup {0} :
           \A a \in AttemptsAt(e, e.wall, VALVE_TOP_POS) :
             \A b \in AttemptsAt(e, w, VALVE_TOP_POS) :
               /\ a.accepted = b.accepted
               /\ a.accepted <=> ~ElapsedBelow(lastMoveTime, Add32(millisNow, e.dt),
                                               MIN_MOVE_INTERVAL)
\* a move has been made, the counter has since wrapped, and a tick's attempt
\* is accepted with the counter reading less than at the last move
C19_Witness ==
    /\ lastWriteAt # <<>>
    /\ \E r \in LiveTickRuns : \E a \in Attempts(r) :
         /\ a.accepted
         /\ a.last[1] = 0 /\ a.at[1] = 0 /\ a.at[2] < a.last[2]

\* the name of the log file is that of the date of wall-clock time t
NamesDate(name, t) == name = <<year(t), month(t), day(t)>>
\* the file has the header line once, as its first line
HeaderOnce(lines) ==
    /\ lines[1] = "hdr"
    /\ \A i \in DOMAIN lines : lines[i] = "hdr" => i = 1

\* C20 (first part): after every tick the name of the current log file is
\* that of the current wall-clock date.
C20_SegmentNamesDate ==
    \A r \in SegmentRuns :
        (unit = "library" => initialized) => NamesDate(r.currentLogFile, r.wall)

\* C20 (second part): every log file that holds a telemetry record has the
\* header line exactly once, as its first line.
C20_SegmentHeader ==
    \A name \in DOMAIN files :
        (\E i \in DOMAIN files[name] : files[name][i] = "rec") => HeaderOnce(files[name])

\* C20: after every tick the current log file is named after the current
\* wall-clock date, and every log file that holds a telemetry record has the
\* header line exactly once, before any record, power cycles included.
C20_LogSegments == C20_SegmentNamesDate /\ C20_SegmentHeader

\* one pass of the control loop of the build, from the state s
Tick(s) == IF unit = "sketch" THEN loop(s) ELSE update(s)
\* what the tick after a run r finds: the time since r, the bus voltage, and
\* the bytes then pending on the command channel
FollowInputs == [dt : DtSet \cup {U32(0)}, voltage : Voltages]
FollowUp(r, e, bytes) ==
    Tick([r EXCEPT !.ev = [NoEvent EXCEPT !.op = "tick"],
                   !.millisNow = Add32(r.millisNow, e.dt),
                   !.voltage = e.voltage,
                   !.serialIn = bytes])
\* the run read a 't' or 'b' and its move was rejected by the rate limiter, or
\* replaced by Home because the voltage was low
Dropped(r) ==
    /\ SERIAL_CONTROL
    /\ ByteRead(r) \in {"t", "b"}
    /\ \/ \E a \in Attempts(r) : ~a.accepted
       \/ \E w \in Writes(r) : w.by = "setValvePosition" /\ w.trip

\* C21: in Commanded mode a tick that read 't' or 'b' and whose move the rate
\* limiter rejected, or the interlock replaced by Home, has taken the byte off
\* the channel and left the valve away from the requested position; the next
\* tick, if it reads no directive, makes no attempt and leaves the valve away
\* from that position; if it reads the directive anew, the valve reaches the
\* position only when the rate limiter's window has passed, and does reach it
\* then if the voltage is at or above the threshold.
C21_DirectiveDiscarded ==
    \A r \in LiveTickRuns :
        Dropped(r) =>
          LET req == CommandTarget(ByteRead(r))
          IN  /\ r.serialIn = Tail(serialIn)
              /\ r.valve # req
              /\ \A e \in FollowInputs :
                   /\ \A bytes \in {<<>>, <<"x">>} :
                        LET q == FollowUp(r, e, bytes)
                        IN  /\ Attempts(q) = {}
                            /\ q.valve # req
                            /\ q.eeprom = r.eeprom
                            /\ q.lastMoveTime = r.lastMoveTime
                   /\ LET q == FollowUp(r, e, <<ByteRead(r)>>)
                      IN  /\ q.valve = req => ~TooSoon(q.millisNow, r.lastMoveTime)
                          /\ ( /\ ~TooSoon(q.millisNow, r.lastMoveTime)
                               /\ e.voltage >= LOW_VOLTAGE_THRESHOLD ) => q.valve = req
\* a directive is pending after a move; one tick reads it inside the rate
\* limiter's window and has its move rejected, another reads it with the
\* voltage low and writes Home in its place
C21_Witness ==
    /\ SERIAL_CONTROL /\ lastWriteAt # <<>>
    /\ \E r \in LiveTickRuns : Dropped(r) /\ \E a \in Attempts(r) : ~a.accepted
    /\ \E r \in LiveTickRuns :
         Dropped(r) /\ \E w \in Writes(r) : w.by = "setValvePosition" /\ w.trip

\* Commanded mode: the interlock has put the valve at Home since boot, and
\* the valve is there
HomedByInterlock == SERIAL_CONTROL /\ pc = "run" /\ tripped /\ valve = VALVE_HOME_POS

\* C22: in Commanded mode, once the interlock has put the valve at Home, a
\* tick that reads no 't' or 'b' leaves it at Home whatever the voltage then
\* is: it makes no move attempt, writes nothing to the actuator and leaves
\* the store as it was, so the stored position is not written back.
C22_StaysHome ==
    HomedByInterlock =>
        \A r \in LiveTickRuns :
            ByteRead(r) \notin {"t", "b"} =>
                /\ r.valve = VALVE_HOME_POS
                /\ r.tripped
                /\ Attempts(r) = {} /\ Writes(r) = {}
                /\ r.eeprom = eeprom
                /\ r.leds = leds
\* the valve was moved to Top or Bottom and stored, the interlock then homed
\* it, the voltage is back, and a tick runs with the voltage at or above the
\* threshold, the rate limiter open and no directive to read
C22_Witness ==
    /\ HomedByInterlock
    /\ eeprom \in {0, 1}
    /\ voltage >= LOW_VOLTAGE_THRESHOLD
    /\ \E r \in LiveTickRuns :
         /\ r.ev.read = <<>>
         /\ r.voltage >= LOW_VOLTAGE_THRESHOLD
         /\ ~TooSoon(r.millisNow, lastMoveTime)
         /\ r.valve = VALVE_HOME_POS

\* the build's scheduling interval and its scheduled position at time t
ChangeInterval ==
    IF unit = "sketch" THEN SKETCH_VALVE_CHANGE_INTERVAL ELSE LIB_VALVE_CHANGE_INTERVAL
ScheduledPosition(t) ==
    IF unit = "sketch" THEN calculateExpectedValvePosition(t)
    ELSE _calculateExpectedValvePosition(t)

\* C23: with the build's interval (450 s in the sketch, 30 s in the library)
\* the scheduled position changes at every multiple of the interval and
\* nowhere else, and differs from the position one interval later, across
\* the hour too; in Scheduled mode with the voltage at or above the
\* threshold a tick writes to the actuator exactly when it is the first tick
\* after boot or the first tick of a slot, it writes once, and the valve is
\* then at the scheduled position.
C23_Alternation ==
    /\ ScheduledPosition(wall) # ScheduledPosition(wall + ChangeInterval)
    /\ (ScheduledPosition(wall) # ScheduledPosition(wall + 1))
         <=> ((wall + 1) % ChangeInterval = 0)
    /\ (pc = "run" /\ lastWriteAt # <<>>) => valve = ScheduledPosition(wall)
    /\ \A r \in HourRuns :
         /\ Writes(r) # {} <=>
              \/ lastWriteAt = <<>>
              \/ r.wall # wall /\ r.wall % ChangeInterval = 0
         /\ Len(r.ev.writes) <= 1
         /\ r.valve = ScheduledPosition(r.wall)
         /\ \A w \in Writes(r) : w.pos # valve
\* the last second of the first hour, with the valve at Top, and the tick of
\* the next second moves the valve to Bottom
C23_Witness ==
    /\ wall = 3599 /\ valve = VALVE_TOP_POS
    /\ \E r \in HourRuns :
         r.wall = 3600 /\ \E w \in Writes(r) : w.pos = VALVE_BOTTOM_POS

====
